---- MODULE Spec2Model ----
(***************************************************************************)
(* The jobspy extractor (src/extractors/jobspy/scrape_jobs.py): one run of *)
(* main() as a sequential state machine, and the location normalizer as    *)
(* operators on texts.                                                     *)
(*                                                                         *)
(* A text (a Python str) is a sequence of pieces.  A piece is a single     *)
(* character, written as a one-character string; in the sources list a     *)
(* piece may also be a whole word without commas or whitespace             *)
(* ("glassdoor", "indeed", "linkedin"), so that the site name "glassdoor"  *)
(* is the text <<"glassdoor">> and <<"glassdoor", "indeed">> is the        *)
(* different name "glassdoorindeed".                                       *)
(*                                                                         *)
(* An environment variable is <<>> when unset (os.getenv gives None) and   *)
(* <<text>> when set.                                                      *)
(***************************************************************************)
EXTENDS Integers, Sequences, FiniteSets, TLC

VARIABLES
    env,                  \* the environment: JOBSPY_SITES, JOBSPY_LOCATION, JOBSPY_COUNTRY_INDEED
    pc,                   \* position of main()
    sites,                \* main: sites
    location,             \* main: location
    country_indeed,       \* main: country_indeed
    non_glassdoor_sites,  \* main: non_glassdoor_sites
    frames,               \* main: frames, one sequence of rows per data frame
    jobs,                 \* main: jobs, the rows of the concatenated frame
    calls,                \* the scrape_jobs calls made so far, with their keyword arguments
    events,               \* the progress events printed so far
    csv_file,             \* the file at output_csv: "absent", "partial" or "written"
    json_file,            \* the file at output_json: "absent", "partial" or "written"
    raised,               \* the call whose exception left main(), "none" if none did
    exit_status,          \* <<>> while the process runs, <<status>> once it has exited
    norm                  \* the normalizer applied to one text, then to its own result

vars == <<env, pc, sites, location, country_indeed, non_glassdoor_sites, frames,
          jobs, calls, events, csv_file, json_file, raised, exit_status, norm>>

mainVars == <<env, pc, sites, location, country_indeed, non_glassdoor_sites, frames,
              jobs, calls, events, csv_file, json_file, raised, exit_status>>

----------------------------------------------------------------------------
(* Bounds of the model *)

\* longest JOBSPY_SITES value, in pieces
MaxSitesLen == 3
\* most rows one scrape_jobs call returns
MaxRows == 2
\* longest text, in characters, of the exhaustive inputs of the normalizer
MaxTextLen == 4

----------------------------------------------------------------------------
(* Texts *)

Unset == <<>>
Set(text) == <<text>>

SeqsUpTo(S, n) == UNION {[1..k -> S] : k \in 0..n}

\* the characters str.strip() and str.split() take for whitespace
Whitespace == {" ", "\t", "\n"}

IsSpace(c) == c \in Whitespace

UpperCase == <<"A", "B", "C", "D", "E", "F", "G", "H", "I", "J", "K", "L", "M",
               "N", "O", "P", "Q", "R", "S", "T", "U", "V", "W", "X", "Y", "Z", "Ü">>
LowerCase == <<"a", "b", "c", "d", "e", "f", "g", "h", "i", "j", "k", "l", "m",
               "n", "o", "p", "q", "r", "s", "t", "u", "v", "w", "x", "y", "z", "ü">>

\* str.lower() on one character
LowerChar(c) ==
    IF \E i \in 1..Len(UpperCase) : UpperCase[i] = c
    THEN LowerCase[CHOOSE i \in 1..Len(UpperCase) : UpperCase[i] = c]
    ELSE c

\* str.lower()
Lower(text) == [i \in 1..Len(text) |-> LowerChar(text[i])]

RECURSIVE LStrip(_)
LStrip(text) ==
    IF text # <<>> /\ IsSpace(Head(text)) THEN LStrip(Tail(text)) ELSE text

RECURSIVE RStrip(_)
RStrip(text) ==
    IF text # <<>> /\ IsSpace(text[Len(text)])
    THEN RStrip(SubSeq(text, 1, Len(text) - 1))
    ELSE text

\* str.strip()
Strip(text) == RStrip(LStrip(text))

\* str.split(","): every comma separates, empty pieces are kept
RECURSIVE SplitComma(_)
SplitComma(text) ==
    IF \E i \in 1..Len(text) : text[i] = ","
    THEN LET i == CHOOSE j \in 1..Len(text) :
                      text[j] = "," /\ \A k \in 1..(j - 1) : text[k] # ","
         IN  <<SubSeq(text, 1, i - 1)>> \o SplitComma(SubSeq(text, i + 1, Len(text)))
    ELSE <<text>>

\* str.split(): runs of whitespace separate, no empty piece is kept
RECURSIVE SplitWhitespace(_)
SplitWhitespace(text) ==
    LET rest == LStrip(text)
    IN  IF rest = <<>> THEN <<>>
        ELSE IF \E i \in 1..Len(rest) : IsSpace(rest[i])
        THEN LET i == CHOOSE j \in 1..Len(rest) :
                          IsSpace(rest[j]) /\ \A k \in 1..(j - 1) : ~IsSpace(rest[k])
             IN  <<SubSeq(rest, 1, i - 1)>>
                     \o SplitWhitespace(SubSeq(rest, i + 1, Len(rest)))
        ELSE <<rest>>

\* " ".join(words)
RECURSIVE JoinSpace(_)
JoinSpace(words) ==
    IF words = <<>> THEN <<>>
    ELSE IF Len(words) = 1 THEN words[1]
    ELSE words[1] \o <<" ">> \o JoinSpace(Tail(words))

----------------------------------------------------------------------------
(* The lookup tables *)

\* the alias table with "uk" sent to another alias instead of the canonical name
COUNTRY_ALIASES_chained ==
       (<<"u", "k">> :> <<"u", "s">>)
    @@ (<<"u", "s">> :> <<"u", "n", "i", "t", "e", "d", " ", "s", "t", "a", "t", "e", "s">>)
    @@ (<<"u", "n", "i", "t", "e", "d", " ", "s", "t", "a", "t", "e", "s">> :> <<"u", "n", "i", "t", "e", "d", " ", "s", "t", "a", "t", "e", "s">>)

COUNTRY_ALIASES ==
       (<<"u", "k">> :> <<"u", "n", "i", "t", "e", "d", " ", "k", "i", "n", "g", "d", "o", "m">>)
    @@ (<<"u", "n", "i", "t", "e", "d", " ", "k", "i", "n", "g", "d", "o", "m">> :> <<"u", "n", "i", "t", "e", "d", " ", "k", "i", "n", "g", "d", "o", "m">>)
    @@ (<<"u", "s">> :> <<"u", "n", "i", "t", "e", "d", " ", "s", "t", "a", "t", "e", "s">>)
    @@ (<<"u", "s", "a">> :> <<"u", "n", "i", "t", "e", "d", " ", "s", "t", "a", "t", "e", "s">>)
    @@ (<<"u", "n", "i", "t", "e", "d", " ", "s", "t", "a", "t", "e", "s">> :> <<"u", "n", "i", "t", "e", "d", " ", "s", "t", "a", "t", "e", "s">>)
    @@ (<<"t", "ü", "r", "k", "i", "y", "e">> :> <<"t", "u", "r", "k", "e", "y">>)
    @@ (<<"c", "z", "e", "c", "h", " ", "r", "e", "p", "u", "b", "l", "i", "c">> :> <<"c", "z", "e", "c", "h", "i", "a">>)

GLASSDOOR_COUNTRY_TO_CITY ==
       (<<"a", "u", "s", "t", "r", "a", "l", "i", "a">> :> <<"S", "y", "d", "n", "e", "y">>)
    @@ (<<"a", "u", "s", "t", "r", "i", "a">> :> <<"V", "i", "e", "n", "n", "a">>)
    @@ (<<"b", "e", "l", "g", "i", "u", "m">> :> <<"B", "r", "u", "s", "s", "e", "l", "s">>)
    @@ (<<"b", "r", "a", "z", "i", "l">> :> <<"S", "a", "o", " ", "P", "a", "u", "l", "o">>)
    @@ (<<"c", "a", "n", "a", "d", "a">> :> <<"T", "o", "r", "o", "n", "t", "o">>)
    @@ (<<"f", "r", "a", "n", "c", "e">> :> <<"P", "a", "r", "i", "s">>)
    @@ (<<"g", "e", "r", "m", "a", "n", "y">> :> <<"B", "e", "r", "l", "i", "n">>)
    @@ (<<"h", "o", "n", "g", " ", "k", "o", "n", "g">> :> <<"H", "o", "n", "g", " ", "K", "o", "n", "g">>)
    @@ (<<"i", "n", "d", "i", "a">> :> <<"B", "e", "n", "g", "a", "l", "u", "r", "u">>)
    @@ (<<"i", "r", "e", "l", "a", "n", "d">> :> <<"D", "u", "b", "l", "i", "n">>)
    @@ (<<"i", "t", "a", "l", "y">> :> <<"M", "i", "l", "a", "n">>)
    @@ (<<"m", "e", "x", "i", "c", "o">> :> <<"M", "e", "x", "i", "c", "o", " ", "C", "i", "t", "y">>)
    @@ (<<"n", "e", "t", "h", "e", "r", "l", "a", "n", "d", "s">> :> <<"A", "m", "s", "t", "e", "r", "d", "a", "m">>)
    @@ (<<"n", "e", "w", " ", "z", "e", "a", "l", "a", "n", "d">> :> <<"A", "u", "c", "k", "l", "a", "n", "d">>)
    @@ (<<"s", "i", "n", "g", "a", "p", "o", "r", "e">> :> <<"S", "i", "n", "g", "a", "p", "o", "r", "e">>)
    @@ (<<"s", "p", "a", "i", "n">> :> <<"M", "a", "d", "r", "i", "d">>)
    @@ (<<"s", "w", "i", "t", "z", "e", "r", "l", "a", "n", "d">> :> <<"Z", "u", "r", "i", "c", "h">>)
    @@ (<<"u", "n", "i", "t", "e", "d", " ", "k", "i", "n", "g", "d", "o", "m">> :> <<"L", "o", "n", "d", "o", "n">>)
    @@ (<<"u", "n", "i", "t", "e", "d", " ", "s", "t", "a", "t", "e", "s">> :> <<"N", "e", "w", " ", "Y", "o", "r", "k">>)
    @@ (<<"v", "i", "e", "t", "n", "a", "m">> :> <<"H", "o", " ", "C", "h", "i", " ", "M", "i", "n", "h", " ", "C", "i", "t", "y">>)

----------------------------------------------------------------------------
(* Configuration and location normalizer *)

\* the defaults main() passes to _env_str
DefaultSites == <<"indeed", ",", "linkedin">>
DefaultLocation == <<"U", "K">>
DefaultCountryIndeed == <<"U", "K">>

\* the site that is queried with a city-level location
Glassdoor == <<"glassdoor">>

env_str(name, default) ==
    LET value == env[name]
    IN  IF value # Unset /\ value[1] # <<>> /\ Strip(value[1]) # <<>>
        THEN value[1]
        ELSE default

\* parse_sites keeping the blank pieces: [s.strip() for s in raw.split(",")]
parse_sites_keeping_blank(raw) ==
    LET pieces == SplitComma(raw)
    IN  [i \in 1..Len(pieces) |-> Strip(pieces[i])]

parse_sites(raw) ==
    LET kept == SelectSeq(SplitComma(raw), LAMBDA s : Strip(s) # <<>>)
    IN  [i \in 1..Len(kept) |-> Strip(kept[i])]

normalize_country_token(value) ==
    LET normalized == JoinSpace(SplitWhitespace(Lower(Strip(value))))
    IN  IF normalized \in DOMAIN COUNTRY_ALIASES
        THEN COUNTRY_ALIASES[normalized]
        ELSE normalized

\* is_country_level_location comparing the texts as given, not their normal forms
is_country_level_location_raw(loc, country) ==
    IF Strip(loc) = <<>> \/ Strip(country) = <<>>
    THEN FALSE
    ELSE Strip(loc) = Strip(country)

is_country_level_location(loc, country) ==
    IF Strip(loc) = <<>> \/ Strip(country) = <<>>
    THEN FALSE
    ELSE normalize_country_token(loc) = normalize_country_token(country)

\* <<>> stands for None, <<city>> for a city
glassdoor_city_for_country(country, loc) ==
    LET country_key == normalize_country_token(IF country # <<>> THEN country ELSE loc)
    IN  IF country_key \in DOMAIN GLASSDOOR_COUNTRY_TO_CITY
        THEN <<GLASSDOOR_COUNTRY_TO_CITY[country_key]>>
        ELSE <<>>

\* the keyword arguments _scrape_for_sites hands to scrape_jobs; "location" is
\* passed only when it is not blank
scrape_kwargs(site_list, loc, country) ==
    [site_name |-> site_list,
     has_location |-> (loc # <<>> /\ Strip(loc) # <<>>),
     location |-> IF loc # <<>> /\ Strip(loc) # <<>> THEN loc ELSE <<>>,
     country_indeed |-> country]

\* the location the glassdoor call is made with (main, lines 162-175)
glassdoor_location(loc, country) ==
    IF is_country_level_location(loc, country)
    THEN LET fallback_city == glassdoor_city_for_country(country, loc)
         IN  IF fallback_city # <<>> /\ fallback_city[1] # <<>>
             THEN fallback_city[1]
             ELSE loc
    ELSE loc

\* a data frame of n rows that a scrape_jobs call for the given sites returns;
\* a row is opaque to main() and is told apart by the call and its place
Frame(site_list, n) == [i \in 1..n |-> [from |-> site_list, row |-> i]]

\* pd.concat(frames, ignore_index=True): the rows of every frame, in order
RECURSIVE Concat(_)
Concat(fs) == IF fs = <<>> THEN <<>> ELSE Head(fs) \o Concat(Tail(fs))

\* the frames concatenated last frame first
RECURSIVE ConcatReversed(_)
ConcatReversed(fs) == IF fs = <<>> THEN <<>> ELSE ConcatReversed(Tail(fs)) \o Head(fs)

pd_concat_reversed(fs) ==
    IF fs = <<>>
    THEN [raises |-> TRUE, rows |-> <<>>]
    ELSE [raises |-> FALSE, rows |-> ConcatReversed(fs)]

\* pd.concat raises ValueError when it is given no frame at all
pd_concat(fs) ==
    IF fs = <<>>
    THEN [raises |-> TRUE, rows |-> <<>>]
    ELSE [raises |-> FALSE, rows |-> Concat(fs)]

\* "pd.concat(frames, ignore_index=True) if frames else pd.DataFrame()"
aggregate(fs) == IF fs # <<>> THEN pd_concat(fs) ELSE [raises |-> FALSE, rows |-> <<>>]

\* the group of the other sites without its filter
non_glassdoor_unfiltered(site_list) == site_list

\* "[site for site in sites if site != "glassdoor"]"
non_glassdoor(site_list) == SelectSeq(site_list, LAMBDA site : site # Glassdoor)

\* the sites of the glassdoor call: ["glassdoor"] if "glassdoor" in sites, else none
glassdoor_group(site_list) ==
    IF \E i \in 1..Len(site_list) : site_list[i] = Glassdoor THEN <<Glassdoor>> ELSE <<>>

\* "term_complete" counting the frames instead of their rows
term_complete_event_counting_frames(rows) ==
    [event |-> "term_complete", jobsFoundTerm |-> Len(frames)]

\* the payload of "term_complete" carries int(len(jobs))
term_complete_event(rows) == [event |-> "term_complete", jobsFoundTerm |-> Len(rows)]

term_start_event == [event |-> "term_start"]

----------------------------------------------------------------------------
(* Inputs *)

T_UnitedKingdom == <<"U", "n", "i", "t", "e", "d", " ", "K", "i", "n", "g", "d", "o", "m">>
T_Manchester == <<"M", "a", "n", "c", "h", "e", "s", "t", "e", "r">>
T_Turkiye == <<"T", "ü", "r", "k", "i", "y", "e">>
T_FRANCE == <<"F", "R", "A", "N", "C", "E", " ">>
T_Turkey == <<"T", "u", "r", "k", "e", "y">>
T_france == <<"f", "r", "a", "n", "c", "e">>
T_London == <<"L", "o", "n", "d", "o", "n">>

SiteAlphabet == {",", " ", "glassdoor", "indeed"}

SitesInputs == {Unset} \cup {Set(t) : t \in SeqsUpTo(SiteAlphabet, MaxSitesLen)}

LocationInputs ==
    {Unset, Set(<<" ">>), Set(T_UnitedKingdom), Set(T_Manchester), Set(T_Turkiye),
     Set(T_FRANCE)}

CountryInputs == {Unset, Set(<<>>), Set(T_Turkey), Set(T_france)}

NormAlphabet == {"u", "K", "s", "a", " "}

NormSamples ==
    {T_UnitedKingdom, T_Manchester, T_Turkiye, T_FRANCE, T_Turkey, T_france,
     <<" ", "u", "n", "i", "t", "e", "d", " ", "\t", "K", "I", "N", "G", "D", "O", "M", "\n">>,
     <<"U", "N", "I", "T", "E", "D", " ", " ", "S", "T", "A", "T", "E", "S">>,
     <<"T", "Ü", "R", "K", "I", "Y", "E">>,
     <<"C", "z", "e", "c", "h", " ", " ", "R", "e", "p", "u", "b", "l", "i", "c">>,
     <<"c", "z", "e", "c", "h", "i", "a">>}

NormInputs == SeqsUpTo(NormAlphabet, MaxTextLen) \cup NormSamples

NormIdle == [stage |-> "idle", value |-> <<>>, once |-> <<>>, twice |-> <<>>]

----------------------------------------------------------------------------
(* One run of main() *)

Init ==
    /\ env \in [JOBSPY_SITES : SitesInputs,
                JOBSPY_LOCATION : LocationInputs,
                JOBSPY_COUNTRY_INDEED : CountryInputs]
    /\ pc = "configure"
    /\ sites = <<>>
    /\ location = <<>>
    /\ country_indeed = <<>>
    /\ non_glassdoor_sites = <<>>
    /\ frames = <<>>
    /\ jobs = <<>>
    /\ calls = <<>>
    /\ events = <<>>
    /\ csv_file = "absent"
    /\ json_file = "absent"
    /\ raised = "none"
    /\ exit_status = <<>>
    /\ norm = NormIdle

\* an exception that is swallowed: the process still exits with status 0
RaiseSwallowed(what) ==
    /\ pc' = "exited"
    /\ raised' = what
    /\ exit_status' = <<0>>

\* an exception leaves main(): the interpreter exits with status 1
Raise(what) ==
    /\ pc' = "exited"
    /\ raised' = what
    /\ exit_status' = <<1>>

\* lines 116-133: the settings are read and the output directories made
Configure ==
    /\ pc = "configure"
    /\ sites' = parse_sites(env_str("JOBSPY_SITES", DefaultSites))
    /\ location' = env_str("JOBSPY_LOCATION", DefaultLocation)
    /\ country_indeed' = env_str("JOBSPY_COUNTRY_INDEED", DefaultCountryIndeed)
    /\ \/ pc' = "term_start" /\ UNCHANGED <<raised, exit_status>>
       \/ Raise("mkdir")
    /\ UNCHANGED <<env, non_glassdoor_sites, frames, jobs, calls, events,
                   csv_file, json_file, norm>>

\* lines 135-145
EmitTermStart ==
    /\ pc = "term_start"
    /\ events' = Append(events, term_start_event)
    /\ frames' = <<>>
    /\ non_glassdoor_sites' = non_glassdoor(sites)
    /\ pc' = "non_glassdoor"
    /\ UNCHANGED <<env, sites, location, country_indeed, jobs, calls,
                   csv_file, json_file, raised, exit_status, norm>>

\* the call for the other sites made again after it raised
ScrapeNonGlassdoorRetrying ==
    /\ pc = "non_glassdoor"
    /\ IF non_glassdoor_sites # <<>>
       THEN LET kwargs == scrape_kwargs(non_glassdoor_sites, location, country_indeed)
            IN  \/ \E n \in 0..MaxRows :
                       /\ calls' = Append(calls, [kwargs |-> kwargs, returned |-> TRUE])
                       /\ frames' = Append(frames, Frame(kwargs.site_name, n))
                       /\ pc' = "glassdoor"
                \/ /\ Len(calls) < 2
                   /\ calls' = Append(calls, [kwargs |-> kwargs, returned |-> FALSE])
                   /\ UNCHANGED <<pc, frames>>
       ELSE /\ pc' = "glassdoor"
            /\ UNCHANGED <<calls, frames>>
    /\ UNCHANGED <<env, sites, location, country_indeed, non_glassdoor_sites, jobs,
                   events, csv_file, json_file, raised, exit_status, norm>>

\* lines 147-159: one scrape_jobs call for the sites other than glassdoor
ScrapeNonGlassdoor ==
    /\ pc = "non_glassdoor"
    /\ IF non_glassdoor_sites # <<>>
       THEN LET kwargs == scrape_kwargs(non_glassdoor_sites, location, country_indeed)
            IN  \/ \E n \in 0..MaxRows :
                       /\ calls' = Append(calls, [kwargs |-> kwargs, returned |-> TRUE])
                       /\ frames' = Append(frames, Frame(kwargs.site_name, n))
                       /\ pc' = "glassdoor"
                       /\ UNCHANGED <<raised, exit_status>>
                \/ /\ calls' = Append(calls, [kwargs |-> kwargs, returned |-> FALSE])
                   /\ Raise("scrape_jobs")
                   /\ UNCHANGED frames
       ELSE /\ pc' = "glassdoor"
            /\ UNCHANGED <<calls, frames, raised, exit_status>>
    /\ UNCHANGED <<env, sites, location, country_indeed, non_glassdoor_sites, jobs,
                   events, csv_file, json_file, norm>>

\* the glassdoor call with its exception caught: the run goes on without its frame
ScrapeGlassdoorIsolated ==
    /\ pc = "glassdoor"
    /\ IF glassdoor_group(sites) # <<>>
       THEN LET kwargs == scrape_kwargs(glassdoor_group(sites),
                                        glassdoor_location(location, country_indeed),
                                        country_indeed)
            IN  \/ \E n \in 0..MaxRows :
                       /\ calls' = Append(calls, [kwargs |-> kwargs, returned |-> TRUE])
                       /\ frames' = Append(frames, Frame(kwargs.site_name, n))
                \/ /\ calls' = Append(calls, [kwargs |-> kwargs, returned |-> FALSE])
                   /\ UNCHANGED frames
       ELSE UNCHANGED <<calls, frames>>
    /\ pc' = "concat"
    /\ UNCHANGED <<env, sites, location, country_indeed, non_glassdoor_sites, jobs,
                   events, csv_file, json_file, raised, exit_status, norm>>

\* lines 161-187: one scrape_jobs call for glassdoor, with a city where one is known
ScrapeGlassdoor ==
    /\ pc = "glassdoor"
    /\ IF glassdoor_group(sites) # <<>>
       THEN LET kwargs == scrape_kwargs(glassdoor_group(sites),
                                        glassdoor_location(location, country_indeed),
                                        country_indeed)
            IN  \/ \E n \in 0..MaxRows :
                       /\ calls' = Append(calls, [kwargs |-> kwargs, returned |-> TRUE])
                       /\ frames' = Append(frames, Frame(kwargs.site_name, n))
                       /\ pc' = "concat"
                       /\ UNCHANGED <<raised, exit_status>>
                \/ /\ calls' = Append(calls, [kwargs |-> kwargs, returned |-> FALSE])
                   /\ Raise("scrape_jobs")
                   /\ UNCHANGED frames
       ELSE /\ pc' = "concat"
            /\ UNCHANGED <<calls, frames, raised, exit_status>>
    /\ UNCHANGED <<env, sites, location, country_indeed, non_glassdoor_sites, jobs,
                   events, csv_file, json_file, norm>>

\* lines 189-191
ConcatFrames ==
    /\ pc = "concat"
    /\ LET result == aggregate(frames)
       IN  IF result.raises
           THEN Raise("pd.concat") /\ UNCHANGED jobs
           ELSE /\ jobs' = result.rows
                /\ pc' = "term_complete"
                /\ UNCHANGED <<raised, exit_status>>
    /\ UNCHANGED <<env, sites, location, country_indeed, non_glassdoor_sites, frames,
                   calls, events, csv_file, json_file, norm>>

\* main() going on to the writes without emitting "term_complete"
EmitTermCompleteSkipped ==
    /\ pc = "term_complete"
    /\ pc' = "to_csv"
    /\ UNCHANGED <<env, sites, location, country_indeed, non_glassdoor_sites, frames,
                   jobs, calls, events, csv_file, json_file, raised, exit_status, norm>>

\* lines 192-200
EmitTermComplete ==
    /\ pc = "term_complete"
    /\ events' = Append(events, term_complete_event(jobs))
    /\ pc' = "to_csv"
    /\ UNCHANGED <<env, sites, location, country_indeed, non_glassdoor_sites, frames,
                   jobs, calls, csv_file, json_file, raised, exit_status, norm>>

\* lines 202-207: the write succeeds, or raises and leaves no file or a cut one
WriteCsv ==
    /\ pc = "to_csv"
    /\ \/ /\ csv_file' = "written"
          /\ pc' = "to_json"
          /\ UNCHANGED <<raised, exit_status>>
       \/ /\ csv_file' \in {"absent", "partial"}
          /\ Raise("to_csv")
    /\ UNCHANGED <<env, sites, location, country_indeed, non_glassdoor_sites, frames,
                   jobs, calls, events, json_file, norm>>

\* line 208
WriteJson ==
    /\ pc = "to_json"
    /\ \/ /\ json_file' = "written"
          /\ pc' = "return"
          /\ UNCHANGED <<raised, exit_status>>
       \/ /\ json_file' \in {"absent", "partial"}
          /\ Raise("to_json")
    /\ UNCHANGED <<env, sites, location, country_indeed, non_glassdoor_sites, frames,
                   jobs, calls, events, csv_file, norm>>

\* lines 210-216: main() returns 0 and SystemExit(0) ends the process
Return ==
    /\ pc = "return"
    /\ pc' = "exited"
    /\ exit_status' = <<0>>
    /\ UNCHANGED <<env, sites, location, country_indeed, non_glassdoor_sites, frames,
                   jobs, calls, events, csv_file, json_file, raised, norm>>

Next ==
    \/ Configure
    \/ EmitTermStart
    \/ ScrapeNonGlassdoor
    \/ ScrapeGlassdoor
    \/ ConcatFrames
    \/ EmitTermComplete
    \/ WriteCsv
    \/ WriteJson
    \/ Return

Spec == Init /\ [][Next]_vars

----------------------------------------------------------------------------
(* The normalizer applied to a text, then to its own result *)

InitNormalize ==
    /\ norm \in {[stage |-> "input", value |-> t, once |-> <<>>, twice |-> <<>>] :
                    t \in NormInputs}
    /\ env = [JOBSPY_SITES |-> Unset, JOBSPY_LOCATION |-> Unset,
              JOBSPY_COUNTRY_INDEED |-> Unset]
    /\ pc = "idle"
    /\ sites = <<>>
    /\ location = <<>>
    /\ country_indeed = <<>>
    /\ non_glassdoor_sites = <<>>
    /\ frames = <<>>
    /\ jobs = <<>>
    /\ calls = <<>>
    /\ events = <<>>
    /\ csv_file = "absent"
    /\ json_file = "absent"
    /\ raised = "none"
    /\ exit_status = <<>>

NormalizeOnce ==
    /\ norm.stage = "input"
    /\ norm' = [norm EXCEPT !.stage = "once", !.once = normalize_country_token(norm.value)]
    /\ UNCHANGED mainVars

NormalizeTwice ==
    /\ norm.stage = "once"
    /\ norm' = [norm EXCEPT !.stage = "twice", !.twice = normalize_country_token(norm.once)]
    /\ UNCHANGED mainVars

NextNormalize == NormalizeOnce \/ NormalizeTwice

SpecNormalize == InitNormalize /\ [][NextNormalize]_vars


----------------------------------------------------------------------------
(* Vocabulary of the properties *)

Range(s) == {s[i] : i \in DOMAIN s}

Count(s, x) == Cardinality({i \in DOMAIN s : s[i] = x})

IsPrefix(a, b) == Len(a) <= Len(b) /\ a = SubSeq(b, 1, Len(a))

RECURSIVE SumLen(_)
SumLen(fs) == IF fs = <<>> THEN 0 ELSE Len(Head(fs)) + SumLen(Tail(fs))

\* the site lists of the calls made so far, in call order
CallSites == [i \in 1..Len(calls) |-> calls[i].kwargs.site_name]

AllReturned == \A i \in 1..Len(calls) : calls[i].returned

\* the requested sites other than glassdoor, in request order
RequestedGeneric == SelectSeq(sites, LAMBDA s : s # <<"glassdoor">>)

\* the requested city-granularity sites: glassdoor once, if it was requested
RequestedCity == IF <<"glassdoor">> \in Range(sites) THEN << <<"glassdoor">> >> ELSE <<>>

\* the calls a run makes when no call raises: one per group that is not empty
ExpectedCalls ==
    (IF RequestedGeneric # <<>> THEN <<RequestedGeneric>> ELSE <<>>)
        \o (IF RequestedCity # <<>> THEN <<RequestedCity>> ELSE <<>>)

\* main() is past both scrape statements
Dispatched ==
    \/ pc \in {"concat", "term_complete", "to_csv", "to_json", "return"}
    \/ pc = "exited" /\ raised \in {"none", "pd.concat", "to_csv", "to_json"}

Emitted(kind) == \E i \in 1..Len(events) : events[i].event = kind

FileTouched == csv_file # "absent" \/ json_file # "absent"

----------------------------------------------------------------------------
(* C1 *)

\* C1: a run that exits with status 0 has emitted exactly two progress events,
\* "term_start" then "term_complete"; no scrape_jobs call is made before
\* "term_start"; "term_complete" is emitted only once every call has been made
\* and has returned and the frames are concatenated, and its jobsFoundTerm is
\* the number of rows of the aggregated batch.
C1_TwoEventsInOrder ==
    /\ Len(events) <= 2
    /\ Len(events) >= 1 => events[1] = [event |-> "term_start"]
    /\ calls # <<>> => Len(events) >= 1
    /\ Len(events) = 2 =>
           /\ events[2].event = "term_complete"
           /\ CallSites = ExpectedCalls
           /\ AllReturned
           /\ Len(frames) = Len(calls)
           /\ jobs = Concat(frames)
           /\ events[2].jobsFoundTerm = Len(jobs)
           /\ events[2].jobsFoundTerm = SumLen(frames)
    /\ exit_status = <<0>> => Len(events) = 2

C1_Witness ==
    /\ exit_status = <<0>>
    /\ Len(calls) = 2
    /\ Len(events) = 2
    /\ events[2].jobsFoundTerm = 2 * MaxRows

----------------------------------------------------------------------------
(* C2 *)

\* the text names no site: it is made of commas and whitespace only
NamesNoSite(text) == \A i \in 1..Len(text) : text[i] = "," \/ IsSpace(text[i])

\* C2 as stated: with JOBSPY_SITES set to the empty string the requested site
\* list is empty, no scrape_jobs call is made, the batch is empty and a run in
\* which nothing raises writes both files and exits with status 0.
C2_EmptyStringRequestsNothing ==
    (env.JOBSPY_SITES = Set(<<>>) /\ pc # "configure") =>
        /\ sites = <<>>
        /\ non_glassdoor_sites = <<>>
        /\ calls = <<>>
        /\ jobs = <<>>
        /\ (pc = "exited" /\ raised = "none") =>
               csv_file = "written" /\ json_file = "written" /\ exit_status = <<0>>

\* C2 amended: a JOBSPY_SITES value that is not blank and names no site (commas
\* and whitespace only, such as ",") gives an empty site list, both groups
\* empty, no scrape_jobs call, an empty batch, and, when nothing raises, both
\* files written and exit status 0; the empty string is blank, so the default
\* "indeed,linkedin" is requested and the one call made is for those two sites.
C2_NoSiteNamedRequestsNothing ==
    /\ (/\ env.JOBSPY_SITES # Unset
        /\ NamesNoSite(env.JOBSPY_SITES[1])
        /\ \E i \in 1..Len(env.JOBSPY_SITES[1]) : env.JOBSPY_SITES[1][i] = ","
        /\ pc # "configure") =>
           /\ sites = <<>>
           /\ non_glassdoor_sites = <<>>
           /\ RequestedCity = <<>>
           /\ calls = <<>>
           /\ frames = <<>>
           /\ jobs = <<>>
           /\ raised \in {"none", "mkdir", "to_csv", "to_json"}
           /\ Len(events) = 2 => events[2].jobsFoundTerm = 0
           /\ (pc = "exited" /\ raised = "none") =>
                  csv_file = "written" /\ json_file = "written" /\ exit_status = <<0>>
    /\ (env.JOBSPY_SITES = Set(<<>>) /\ pc # "configure") =>
           /\ sites = << <<"indeed">>, <<"linkedin">> >>
           /\ Dispatched => CallSites = << << <<"indeed">>, <<"linkedin">> >> >>

C2_Witness ==
    /\ env.JOBSPY_SITES = Set(<<",">>)
    /\ sites = <<>>
    /\ calls = <<>>
    /\ csv_file = "written"
    /\ json_file = "written"
    /\ exit_status = <<0>>

----------------------------------------------------------------------------
(* C3 *)

\* location and country token name the same country
SameCountry(loc, country) ==
    /\ Strip(loc) # <<>>
    /\ Strip(country) # <<>>
    /\ normalize_country_token(loc) = normalize_country_token(country)

\* C3: the glassdoor call is made with the city of the table when location and
\* country token name the same country and the table has that country, and
\* with the original location otherwise; the call for the other sites is
\* always made with the original location.  "United Kingdom" with "UK" gives
\* glassdoor "London" and the other sites "United Kingdom"; "Manchester" with
\* "UK" gives glassdoor "Manchester".
C3_GlassdoorLocation ==
    \A i \in 1..Len(calls) :
        LET kw == calls[i].kwargs
            key == normalize_country_token(country_indeed)
        IN  /\ kw.has_location
            /\ IF kw.site_name = <<Glassdoor>>
               THEN /\ kw.location =
                          IF SameCountry(location, country_indeed)
                             /\ key \in DOMAIN GLASSDOOR_COUNTRY_TO_CITY
                          THEN GLASSDOOR_COUNTRY_TO_CITY[key]
                          ELSE location
                    /\ (location = T_UnitedKingdom /\ country_indeed = <<"U", "K">>)
                           => kw.location = T_London
                    /\ (location = T_Manchester /\ country_indeed = <<"U", "K">>)
                           => kw.location = T_Manchester
               ELSE kw.location = location

C3_Witness ==
    /\ Len(calls) = 2
    /\ location = T_UnitedKingdom
    /\ country_indeed = <<"U", "K">>
    /\ calls[1].kwargs.location = T_UnitedKingdom
    /\ calls[2].kwargs.site_name = <<Glassdoor>>
    /\ calls[2].kwargs.location = T_London

----------------------------------------------------------------------------
(* C4 *)

\* C4: once the groups are formed, the sites other than glassdoor and the
\* glassdoor group partition the requested sites: together they hold exactly
\* the requested names (main() itself sets no name aside as unrecognized),
\* they share none, every name other than glassdoor is in the first group as
\* often as it was requested, glassdoor is in the second group once, and
\* every call made is for one of the two groups.
C4_GroupsPartitionSites ==
    Len(events) >= 1 =>
        LET generic == non_glassdoor_sites
            city == RequestedCity
        IN  /\ Range(generic) \cup Range(city) = Range(sites)
            /\ Range(generic) \cap Range(city) = {}
            /\ \A s \in Range(sites) :
                   Count(generic, s) + Count(city, s) =
                       IF s = <<"glassdoor">> THEN 1 ELSE Count(sites, s)
            /\ \A i \in 1..Len(calls) :
                   /\ calls[i].kwargs.site_name # <<>>
                   /\ calls[i].kwargs.site_name \in {generic, city}
            /\ Dispatched => Range(CallSites) = {generic, city} \ {<<>>}

C4_Witness ==
    /\ Dispatched
    /\ sites = << <<"indeed">>, <<"glassdoor">> >>
    /\ non_glassdoor_sites = << <<"indeed">> >>
    /\ Len(calls) = 2

----------------------------------------------------------------------------
(* C5 *)

\* C5: the batch is the rows of the frames the calls returned, in call order
\* (the other sites first, glassdoor after), so it has as many rows as the
\* calls returned together; with no call made, or only empty frames returned,
\* the batch is empty and aggregation raises nothing.
C5_BatchIsConcatenation ==
    /\ raised # "pd.concat"
    /\ (pc = "term_complete" \/ Len(events) = 2) =>
           /\ Len(frames) = Len(calls)
           /\ \A i \in 1..Len(frames) : \A k \in 1..Len(frames[i]) :
                  frames[i][k].from = calls[i].kwargs.site_name
           /\ jobs = (IF Len(frames) >= 1 THEN frames[1] ELSE <<>>)
                         \o (IF Len(frames) >= 2 THEN frames[2] ELSE <<>>)
           /\ Len(frames) <= 2
           /\ Len(jobs) = SumLen(frames)
           /\ \A i, j \in 1..Len(jobs) :
                  (i < j /\ jobs[i].from = <<Glassdoor>>) => jobs[j].from = <<Glassdoor>>
           /\ (\A i \in 1..Len(frames) : frames[i] = <<>>) => jobs = <<>>

C5_Witness ==
    /\ exit_status = <<0>>
    /\ Len(frames) = 2
    /\ Len(frames[1]) = MaxRows
    /\ Len(frames[2]) = 1
    /\ Len(jobs) = MaxRows + 1

----------------------------------------------------------------------------
(* C6 *)

\* C6: a scrape_jobs call that raises ends the run with a status other than 0
\* and no output file written, also when it is the glassdoor call after the
\* other call returned; wherever an output file has been written or begun,
\* every call for a group that is not empty has been made and has returned.
C6_NoOutputAfterFailedFetch ==
    /\ (\E i \in 1..Len(calls) : ~calls[i].returned) =>
           /\ pc = "exited"
           /\ raised = "scrape_jobs"
           /\ exit_status # <<>> /\ exit_status[1] # 0
           /\ csv_file = "absent"
           /\ json_file = "absent"
    /\ FileTouched => (AllReturned /\ CallSites = ExpectedCalls)

C6_Witness ==
    /\ Len(calls) = 2
    /\ calls[1].returned
    /\ ~calls[2].returned
    /\ frames # <<>> /\ frames[1] # <<>>
    /\ pc = "exited"

----------------------------------------------------------------------------
(* C7 *)

\* C7: the calls made are, in order, at most one call for the sites other
\* than glassdoor and then at most one for glassdoor, wherever glassdoor
\* stands in the list; a call is made only after the one before it returned,
\* none is made twice, none for an empty group; once main() is past both
\* scrape statements each group that is not empty was called exactly once,
\* and a run that made fewer calls ended on an exception.
C7_OneCallPerGroupInOrder ==
    /\ IsPrefix(CallSites, ExpectedCalls)
    /\ \A i \in 1..Len(calls) : i < Len(calls) => calls[i].returned
    /\ Dispatched => (CallSites = ExpectedCalls /\ AllReturned)
    /\ (pc = "exited" /\ CallSites # ExpectedCalls) =>
           \/ raised = "mkdir"
           \/ (calls # <<>> /\ ~calls[Len(calls)].returned /\ raised = "scrape_jobs")

C7_Witness ==
    /\ sites = << <<"glassdoor">>, <<"indeed">> >>
    /\ CallSites = << << <<"indeed">> >>, << <<"glassdoor">> >> >>
    /\ AllReturned
    /\ pc = "exited"

----------------------------------------------------------------------------
(* C9 *)

\* C9: a run exits with status 0 only with both files written, the delimited
\* text before the structured document; an exception of a scrape_jobs call or
\* of either write ends the run with status 1; after the exit nothing runs
\* again.
C9_ExitZeroOnlyAfterBothWrites ==
    /\ exit_status = <<0>> =>
           (csv_file = "written" /\ json_file = "written" /\ raised = "none")
    /\ json_file # "absent" => csv_file = "written"
    /\ raised # "none" => (pc = "exited" /\ exit_status = <<1>>)
    /\ (\E i \in 1..Len(calls) : ~calls[i].returned) => raised = "scrape_jobs"
    /\ csv_file = "partial" => raised = "to_csv"
    /\ json_file = "partial" => raised = "to_json"
    /\ pc = "exited" => (exit_status # <<>> /\ ~ENABLED Next)

C9_Witness ==
    /\ raised = "to_json"
    /\ csv_file = "written"
    /\ json_file = "partial"
    /\ exit_status = <<1>>

----------------------------------------------------------------------------
(* C10 *)

\* C10: "term_complete" is emitted before either file is written: no file is
\* written or begun without it, and a run that ends on a failed write has
\* emitted "term_start" and "term_complete", the latter with the row count of
\* the whole batch.
C10_CompleteBeforeWrites ==
    /\ FileTouched => Emitted("term_complete")
    /\ pc \in {"to_json", "return"} => Emitted("term_complete")
    /\ raised \in {"to_csv", "to_json"} =>
           /\ exit_status = <<1>>
           /\ csv_file # "written" \/ json_file # "written"
           /\ Len(events) = 2
           /\ events[1].event = "term_start"
           /\ events[2].event = "term_complete"
           /\ events[2].jobsFoundTerm = SumLen(frames)
           /\ CallSites = ExpectedCalls

C10_Witness ==
    /\ raised = "to_csv"
    /\ csv_file = "absent"
    /\ json_file = "absent"
    /\ Len(events) = 2
    /\ events[2].jobsFoundTerm = 2 * MaxRows

----------------------------------------------------------------------------
(* C8 *)

\* C8: normalizing the result of a normalization gives that result again, and
\* every value of the alias table is no key of it or is mapped to itself.
C8_NormalizeIdempotent ==
    /\ norm.stage = "twice" => norm.twice = norm.once
    /\ \A k \in DOMAIN COUNTRY_ALIASES :
           COUNTRY_ALIASES[k] \in DOMAIN COUNTRY_ALIASES
               => COUNTRY_ALIASES[COUNTRY_ALIASES[k]] = COUNTRY_ALIASES[k]

C8_Witness ==
    /\ norm.stage = "twice"
    /\ norm.value = <<" ", "u", "K", " ">>
    /\ norm.once = <<"u", "n", "i", "t", "e", "d", " ", "k", "i", "n", "g", "d", "o", "m">>
    /\ norm.twice = norm.once

====
